---- MODULE Spec2Model ----
(***************************************************************************)
(* Model of the dual-backend data access layer: the volatile store client  *)
(* (src/redis.rs), the structured store client (src/scylla.rs) and the     *)
(* Handler that sequences writes and races reads (src/handler.rs).         *)
(*                                                                         *)
(* The two servers are the environment.  A statement or command that the   *)
(* driver reports as failed has had no effect on the server; a statement   *)
(* that succeeds has the effect of the statement the names of              *)
(* src/queries.rs describe (INSERT of the full row, DELETE by id, SELECT   *)
(* by id).  The Handler is borrowed mutably by every operation, so one     *)
(* Handler call is in progress at a time.                                  *)
(***************************************************************************)
EXTENDS Integers, Sequences, FiniteSets, TLC

\* ---------------------------------------------------------------- bounds
MaxId == 1
MaxKey == 2
MaxExpiration == 1
MaxAmount == 2
MaxRows == 11
MaxShortRows == 1

\* RedisData::default_expiration() of the record type
DefaultExpiration == 2
\* the built-in row limit of Scylla::fetch
DefaultAmount == 10

Ids == 1..MaxId
Keys == 1..MaxKey
Expirations == 0..MaxExpiration
Amounts == 0..MaxAmount

\* A domain record: ScyllaData::id() and RedisData::key() are independent.
Records == [id : Ids, key : Keys]

\* ------------------------------------------------------------ conversions
\* SerializeRow: the record as a row of two columns
SerializeRow(r) == <<r.id, r.key>>
\* a row of the wrong shape, which FromRow rejects
BadRow == <<0>>
\* FromRow succeeds on a row of two columns in range
RowDecodes(row) == Len(row) = 2 /\ row[1] \in Ids /\ row[2] \in Keys
FromRow(row) == [id |-> row[1], key |-> row[2]]

\* ToRedisArgs: the record as the stored value
ToRedisArgs(r) == <<r.key, r.id>>
\* the reply to GET of an absent key
Nil == <<>>
ValueDecodes(v) == Len(v) = 2 /\ v[1] \in Keys /\ v[2] \in Ids
FromRedisValue(v) == [id |-> v[2], key |-> v[1]]

\* --------------------------------------------------------------- outcomes
\* Result<_, ScyllaError> / Result<_, RedisError>: val is the sequence of
\* records returned (empty for unit), kind the error variant, detail its
\* string ("" for the variants without one).
Ok(v) == [tag |-> "ok", kind |-> "", detail |-> "", val |-> v]
Err(k, d) == [tag |-> "err", kind |-> k, detail |-> d, val |-> <<>>]
NoOutcome == [tag |-> "none", kind |-> "", detail |-> "", val |-> <<>>]
IsOk(o) == o.tag = "ok"
IsErr(o) == o.tag = "err"

\* Result<_, HandlerError>: origin is the HandlerError variant
HOk(v) == [tag |-> "ok", origin |-> "", kind |-> "", detail |-> "", val |-> v]
NoResult == [tag |-> "none", origin |-> "", kind |-> "", detail |-> "", val |-> <<>>]
\* impl From<ScyllaError> for HandlerError
FromScyllaError(o) ==
  [tag |-> "err", origin |-> "ScyllaError", kind |-> o.kind, detail |-> o.detail, val |-> <<>>]
\* impl From<RedisError> for HandlerError
FromRedisError(o) ==
  [tag |-> "err", origin |-> "RedisError", kind |-> o.kind, detail |-> o.detail, val |-> <<>>]

\* the errors a QueriesTrait implementation may return
ResolverErrors == {"InvalidQuery", "QueryPreparationError"}
\* detail string of a driver failure
Io == "io"

VARIABLES
  pc,        \* position of the Handler's owner: construction step, idle, running, returned
  steps,     \* construction steps attempted by the current create_connections
  connected, \* result of the last create_connections
  reported,  \* what the last construction step itself reported
  scylla,    \* structured store: id -> row (<<>> when there is no row)
  redis,     \* volatile store: key -> [val, ttl] (Nil, 0 when absent)
  call,      \* the Handler call in progress or last returned
  sState,    \* structured-store call of this Handler call
  sQuery,    \* what get_query returned for it
  sOut,      \* its outcome
  rState,    \* volatile-store call of this Handler call
  rOut,      \* its outcome
  rows,      \* result set the session returned to the last fetch
  result,    \* what the Handler call returned
  last       \* last successful create/delete with no write since (history)

vars == <<pc, steps, connected, reported, scylla, redis, call, sState, sQuery, sOut,
          rState, rOut, rows, result, last>>

storeVars == <<scylla, redis>>
connVars == <<steps, connected, reported>>
callVars == <<call, sState, sQuery, sOut, rState, rOut, rows, result>>

NoRow == <<>>
NoEntry == [val |-> Nil, ttl |-> 0]
NoCall == [op |-> "none", rec |-> [id |-> 1, key |-> 1], exp |-> 0, amount |-> 0]
NoQuery == [tag |-> "none", err |-> ""]
NoLast == [kind |-> "none", rec |-> [id |-> 1, key |-> 1], exp |-> 0, age |-> 0]

Init ==
  /\ pc = "start"
  /\ steps = <<>>
  /\ connected = NoResult
  /\ reported = NoOutcome
  /\ scylla = [i \in Ids |-> NoRow]
  /\ redis = [k \in Keys |-> NoEntry]
  /\ call = NoCall
  /\ sState = "unstarted"
  /\ sQuery = NoQuery
  /\ sOut = NoOutcome
  /\ rState = "unstarted"
  /\ rOut = NoOutcome
  /\ rows = <<>>
  /\ result = NoResult
  /\ last = NoLast

\* ------------------------------------------------------------ construction
\* HandlerCreateConnections with the two constructions in the other order
HandlerCreateConnectionsScyllaFirst ==
  /\ pc = "start"
  /\ pc' = "scylla_session"
  /\ steps' = <<>>
  /\ connected' = NoResult
  /\ reported' = NoOutcome
  /\ UNCHANGED <<storeVars, callVars, last>>

\* Handler::create_connections, up to the first await: Redis::create_connections
\* opens the client (Client::open is synchronous).
HandlerCreateConnections ==
  /\ pc = "start"
  /\ \/ /\ pc' = "redis_connect"
        /\ steps' = <<"redis_open">>
        /\ connected' = NoResult
        /\ reported' = Ok(<<>>)
     \/ /\ pc' = "start"
        /\ steps' = <<"redis_open">>
        /\ connected' = FromRedisError(Err("CreateClientError", Io))
        /\ reported' = Err("RedisError", Io)
  /\ UNCHANGED <<storeVars, callVars, last>>

\* get_multiplexed_async_connection resolves; on success Handler goes on to
\* Scylla::create_connections and awaits the session build.
RedisCreateConnections ==
  /\ pc = "redis_connect"
  /\ steps' = Append(steps, "redis_connect")
  /\ \/ /\ pc' = "scylla_session"
        /\ connected' = NoResult
        /\ reported' = Ok(<<>>)
     \/ /\ pc' = "start"
        /\ connected' = FromRedisError(Err("CreateConnectionError", Io))
        /\ reported' = Err("RedisError", Io)
  /\ UNCHANGED <<storeVars, callVars, last>>

\* SessionBuilder::build resolves
ScyllaBuildSession ==
  /\ pc = "scylla_session"
  /\ steps' = Append(steps, "scylla_session")
  /\ \/ /\ pc' = "scylla_keyspace"
        /\ connected' = NoResult
        /\ reported' = Ok(<<>>)
     \/ /\ pc' = "start"
        /\ connected' = FromScyllaError(Err("CreateSessionError", Io))
        /\ reported' = Err("NewSessionError", Io)
  /\ UNCHANGED <<storeVars, callVars, last>>

\* the error a resolver step reports
ResolverErr(e) == Err(e, IF e = "InvalidQuery" THEN "" ELSE Io)

\* ResolverStep with the resolver's error mapped to CreateSessionError
ResolverStepMapsError(at, name, next) ==
  /\ pc = at
  /\ steps' = Append(steps, name)
  /\ \/ /\ pc' = next
        /\ connected' = IF next = "idle" THEN HOk(<<>>) ELSE NoResult
        /\ reported' = Ok(<<>>)
     \/ \E e \in ResolverErrors \cup {"CreateSessionError"} :
          /\ pc' = "start"
          /\ connected' = FromScyllaError(Err("CreateSessionError", Io))
          /\ reported' = ResolverErr(e)
  /\ UNCHANGED <<storeVars, callVars, last>>

\* One provisioning step of the resolver: its error is propagated with `?`.
ResolverStep(at, name, next) ==
  /\ pc = at
  /\ steps' = Append(steps, name)
  /\ \/ /\ pc' = next
        /\ connected' = IF next = "idle" THEN HOk(<<>>) ELSE NoResult
        /\ reported' = Ok(<<>>)
     \/ \E e \in ResolverErrors \cup {"CreateSessionError"} :
          /\ pc' = "start"
          /\ connected' = FromScyllaError(ResolverErr(e))
          /\ reported' = ResolverErr(e)
  /\ UNCHANGED <<storeVars, callVars, last>>

QueriesCreateKeyspace == ResolverStep("scylla_keyspace", "scylla_keyspace", "scylla_tables")
\* QueriesCreateTables with the client built right after it
QueriesCreateTablesLast == ResolverStep("scylla_tables", "scylla_tables", "idle")
QueriesCreateTables == ResolverStep("scylla_tables", "scylla_tables", "scylla_prepare")
QueriesPrepareQueries == ResolverStep("scylla_prepare", "scylla_prepare", "idle")

\* ------------------------------------------------- structured store client
\* Query<'a>: what QueriesTrait::get_query may return for a kind
Resolutions ==
  {[tag |-> "Prepared", err |-> ""], [tag |-> "Raw", err |-> ""]}
    \cup {[tag |-> "err", err |-> e] : e \in ResolverErrors}

\* InvalidQuery propagating the resolver's own error (a `?` on get_query)
ResolverError(q) == Err(q.err, IF q.err = "InvalidQuery" THEN "" ELSE Io)

\* `let Ok(query) = query else { return Err(ScyllaError::InvalidQuery) }`
InvalidQuery(q) == Err("InvalidQuery", "")

\* ScyllaExecError with update reporting the variant named after it
ScyllaExecErrorOwnVariant(op, q) ==
  CASE op = "create" -> IF q.tag = "Prepared" THEN "CreateError" ELSE "QueryError"
    [] op = "delete" -> "DeleteError"
    [] op = "update" -> "UpdateError"
    [] op = "get" -> "GetError"
    [] op = "fetch" -> "FetchError"

\* ScyllaExecError with create reporting CreateError on both paths
ScyllaExecErrorOneVariant(op, q) ==
  CASE op = "create" -> "CreateError"
    [] op = "delete" -> "DeleteError"
    [] op = "update" -> "DeleteError"
    [] op = "get" -> "GetError"
    [] op = "fetch" -> "FetchError"

\* the map_err of each operation's execute / query
ScyllaExecError(op, q) ==
  CASE op = "create" -> IF q.tag = "Prepared" THEN "CreateError" ELSE "QueryError"
    [] op = "delete" -> "DeleteError"
    [] op = "update" -> "DeleteError"
    [] op = "get" -> "GetError"
    [] op = "fetch" -> "FetchError"

\* ScyllaCreate binding the id only, as delete and update do
ScyllaCreateBindsId(data, q, fault) ==
  IF fault
    THEN [out |-> Err(ScyllaExecError("create", q), Io), store |-> scylla]
    ELSE [out |-> Ok(<<>>),
          store |-> [scylla EXCEPT ![data.id] = SerializeRow([id |-> data.id, key |-> 1])]]

\* ScyllaCreate with the execution's failure dropped instead of mapped
ScyllaCreateSwallowsError(data, q, fault) ==
  IF fault
    THEN [out |-> Ok(<<>>), store |-> scylla]
    ELSE [out |-> Ok(<<>>),
          store |-> [scylla EXCEPT ![data.id] = SerializeRow(data)]]

\* Scylla::create after resolution: the statement is bound to the full record
ScyllaCreate(data, q, fault) ==
  IF fault
    THEN [out |-> Err(ScyllaExecError("create", q), Io), store |-> scylla]
    ELSE [out |-> Ok(<<>>),
          store |-> [scylla EXCEPT ![data.id] = SerializeRow(data)]]

\* Scylla::delete after resolution: the statement is bound to the id only
ScyllaDelete(data, q, fault) ==
  IF fault
    THEN [out |-> Err(ScyllaExecError("delete", q), Io), store |-> scylla]
    ELSE [out |-> Ok(<<>>), store |-> [scylla EXCEPT ![data.id] = NoRow]]

\* Scylla::update after resolution: the statement is bound to the id only, so
\* the values it writes are those embedded in the statement (embedded)
ScyllaUpdate(data, q, fault, embedded) ==
  IF fault
    THEN [out |-> Err(ScyllaExecError("update", q), Io), store |-> scylla]
    ELSE [out |-> Ok(<<>>),
          store |-> [scylla EXCEPT ![data.id] =
                       SerializeRow([id |-> data.id, key |-> embedded])]]

\* Scylla::get after resolution: first_row, then into_typed
ScyllaGet(id, q, fault) ==
  IF fault
    THEN [out |-> Err(ScyllaExecError("get", q), Io), store |-> scylla]
    ELSE IF scylla[id] = NoRow \/ ~RowDecodes(scylla[id])
      THEN [out |-> Err("RowError", ""), store |-> scylla]
      ELSE [out |-> Ok(<<FromRow(scylla[id])>>), store |-> scylla]

\* Limit without the default
LimitLiteral(ammount) == ammount

\* `let ammount = if ammount == 0 { 10 } else { ammount }`
Limit(ammount) == IF ammount = 0 THEN DefaultAmount ELSE ammount

Min(a, b) == IF a < b THEN a ELSE b

\* typed_rows.take(ammount)
Take(rs, n) == SubSeq(rs, 1, Min(n, Len(rs)))

\* Collect skipping the rows that do not decode (a filter_map)
CollectDecodable(rs) ==
  LET F[i \in 0..Len(rs)] ==
        IF i = 0 THEN <<>>
        ELSE IF RowDecodes(rs[i]) THEN Append(F[i - 1], FromRow(rs[i])) ELSE F[i - 1]
  IN Ok(F[Len(rs)])

\* .collect::<Result<Vec<Data>, FromRowError>>().map_err(|_| RowError)
Collect(rs) ==
  IF \A i \in 1..Len(rs) : RowDecodes(rs[i])
    THEN Ok([i \in 1..Len(rs) |-> FromRow(rs[i])])
    ELSE Err("RowError", "")

\* Scylla::fetch after resolution; isRows is whether result.rows() is Ok
ScyllaFetch(ammount, q, fault, isRows, rs) ==
  IF fault
    THEN [out |-> Err(ScyllaExecError("fetch", q), Io), store |-> scylla]
    ELSE IF ~isRows
      THEN [out |-> Err("RowError", ""), store |-> scylla]
      ELSE [out |-> Collect(Take(rs, Limit(ammount))), store |-> scylla]

\* result sets the session may return: n rows, at most one of them malformed
\* (at position bad), the others the rows of the records in turn
RecordAt(i) == [id |-> (i % MaxId) + 1, key |-> ((i \div MaxId) % MaxKey) + 1]
MkRows(n, bad) ==
  [i \in 1..n |-> IF i = bad THEN BadRow ELSE SerializeRow(RecordAt(i))]
ResultSetsUpTo(m) == {MkRows(n, bad) : n \in 0..m, bad \in 0..m}
ResultSets == ResultSetsUpTo(MaxRows)
ShortResultSets == ResultSetsUpTo(MaxShortRows)

\* --------------------------------------------------- volatile store client
\* ExpirationTime with the test inverted
ExpirationTimeInverted(expiration) ==
  IF expiration # 0 THEN DefaultExpiration ELSE expiration

\* `let expiration_time = if expiration == 0 { default } else { expiration }`
ExpirationTime(expiration) ==
  IF expiration = 0 THEN DefaultExpiration ELSE expiration

\* SETEX key seconds value (the server rejects a zero expiry)
SetEx(key, value, seconds, fault, kind) ==
  IF fault
    THEN [out |-> Err(kind, Io), store |-> redis]
    ELSE IF seconds = 0
      THEN [out |-> Err(kind, "invalid expire time"), store |-> redis]
      ELSE [out |-> Ok(<<>>),
            store |-> [redis EXCEPT ![key] = [val |-> value, ttl |-> seconds]]]

\* Redis::create
RedisCreate(data, expiration, fault) ==
  SetEx(data.key, ToRedisArgs(data), ExpirationTime(expiration), fault, "CreateError")

\* Redis::update
\* RedisUpdate as a command path of its own, with a literal expiry
RedisUpdateOwnPath(data, fault) ==
  SetEx(data.key, ToRedisArgs(data), 1, fault, "UpdateError")

RedisUpdate(data, fault) == RedisCreate(data, 0, fault)

\* RedisDelete removing the entry named by the id instead of the key
RedisDeleteById(data, fault) ==
  IF fault
    THEN [out |-> Err("DeleteError", Io), store |-> redis]
    ELSE [out |-> Ok(<<>>),
          store |-> [k \in Keys |-> IF k = data.id THEN NoEntry ELSE redis[k]]]

\* Redis::delete
RedisDelete(data, fault) ==
  IF fault
    THEN [out |-> Err("DeleteError", Io), store |-> redis]
    ELSE [out |-> Ok(<<>>), store |-> [redis EXCEPT ![data.key] = NoEntry]]

\* RedisGet reading with GETDEL: the entry read is removed
RedisGetDel(key, fault) ==
  IF fault
    THEN [out |-> Err("GetError", Io), store |-> redis]
    ELSE IF ~ValueDecodes(redis[key].val)
      THEN [out |-> Err("GetError", "nil"), store |-> redis]
      ELSE [out |-> Ok(<<FromRedisValue(redis[key].val)>>),
            store |-> [redis EXCEPT ![key] = NoEntry]]

\* Redis::get: GET key, then FromRedisValue (which rejects nil)
RedisGet(key, fault) ==
  IF fault
    THEN [out |-> Err("GetError", Io), store |-> redis]
    ELSE IF ~ValueDecodes(redis[key].val)
      THEN [out |-> Err("GetError", "nil"), store |-> redis]
      ELSE [out |-> Ok(<<FromRedisValue(redis[key].val)>>), store |-> redis]

\* ----------------------------------------------------------------- Handler
Writes == {"create", "delete", "update"}

\* WrapRedis with the volatile error converted into the wrong variant
WrapRedisAsScylla(o) == IF IsOk(o) THEN HOk(o.val) ELSE FromScyllaError(o)

\* HandlerError of a failed store call, the value of a successful one
WrapScylla(o) == IF IsOk(o) THEN HOk(o.val) ELSE FromScyllaError(o)
WrapRedis(o) == IF IsOk(o) THEN HOk(o.val) ELSE FromRedisError(o)

\* A Handler write up to its first await: the structured-store operation
\* resolves its query and either returns InvalidQuery, which `?` returns from
\* the Handler, or sends the statement.
BeginWrite(op, data, expiration) ==
  /\ pc = "idle"
  /\ call' = [op |-> op, rec |-> data, exp |-> expiration, amount |-> 0]
  /\ \E q \in Resolutions :
       /\ sQuery' = q
       /\ IF q.tag = "err"
            THEN /\ sState' = "done"
                 /\ sOut' = InvalidQuery(q)
                 /\ result' = WrapScylla(InvalidQuery(q))
                 /\ pc' = "returned"
            ELSE /\ sState' = "inflight"
                 /\ sOut' = NoOutcome
                 /\ result' = NoResult
                 /\ pc' = "running"
  /\ rState' = "unstarted"
  /\ rOut' = NoOutcome
  /\ rows' = <<>>
  /\ last' = NoLast
  /\ UNCHANGED <<storeVars, connVars>>

\* Handler::create
HandlerCreate == \E data \in Records, expiration \in Expirations :
  BeginWrite("create", data, expiration)

\* Handler::delete
HandlerDelete == \E data \in Records : BeginWrite("delete", data, 0)

\* Handler::udpate
HandlerUdpate == \E data \in Records : BeginWrite("update", data, 0)

\* the branch that select! leaves behind when the other one completes
Abandon(st) == IF st = "inflight" THEN "abandoned" ELSE st

\* Handler::get up to its first suspension: select! polls the two futures in
\* an order of its choosing (first); the structured future resolves its query
\* when polled and is ready at once with InvalidQuery if resolution fails.
HandlerGet == \E scylla_id \in Ids, redis_key \in Keys :
  /\ pc = "idle"
  /\ call' = [op |-> "get", rec |-> [id |-> scylla_id, key |-> redis_key],
              exp |-> 0, amount |-> 0]
  /\ \E q \in Resolutions, first \in {"scylla", "redis"} :
       /\ sQuery' = q
       /\ IF q.tag = "err"
            THEN /\ sState' = "done"
                 /\ sOut' = InvalidQuery(q)
                 /\ rState' = IF first = "redis" THEN "abandoned" ELSE "unstarted"
                 /\ result' = WrapScylla(InvalidQuery(q))
                 /\ pc' = "returned"
            ELSE /\ sState' = "inflight"
                 /\ sOut' = NoOutcome
                 /\ rState' = "inflight"
                 /\ result' = NoResult
                 /\ pc' = "running"
  /\ rOut' = NoOutcome
  /\ rows' = <<>>
  /\ UNCHANGED <<storeVars, connVars, last>>

\* HandlerFetch racing a volatile-store read, as Handler::get does
HandlerFetchRaced == \E ammount \in Amounts :
  /\ pc = "idle"
  /\ call' = [op |-> "fetch", rec |-> NoCall.rec, exp |-> 0, amount |-> ammount]
  /\ \E q \in Resolutions :
       /\ sQuery' = q
       /\ IF q.tag = "err"
            THEN /\ sState' = "done"
                 /\ sOut' = InvalidQuery(q)
                 /\ rState' = "abandoned"
                 /\ result' = WrapScylla(InvalidQuery(q))
                 /\ pc' = "returned"
            ELSE /\ sState' = "inflight"
                 /\ sOut' = NoOutcome
                 /\ rState' = "inflight"
                 /\ result' = NoResult
                 /\ pc' = "running"
  /\ rOut' = NoOutcome
  /\ rows' = <<>>
  /\ UNCHANGED <<storeVars, connVars, last>>

\* Handler::fetch up to its first await
HandlerFetch == \E ammount \in Amounts :
  /\ pc = "idle"
  /\ call' = [op |-> "fetch", rec |-> NoCall.rec, exp |-> 0, amount |-> ammount]
  /\ \E q \in Resolutions :
       /\ sQuery' = q
       /\ IF q.tag = "err"
            THEN /\ sState' = "done"
                 /\ sOut' = InvalidQuery(q)
                 /\ result' = WrapScylla(InvalidQuery(q))
                 /\ pc' = "returned"
            ELSE /\ sState' = "inflight"
                 /\ sOut' = NoOutcome
                 /\ result' = NoResult
                 /\ pc' = "running"
  /\ rState' = "unstarted"
  /\ rOut' = NoOutcome
  /\ rows' = <<>>
  /\ UNCHANGED <<storeVars, connVars, last>>

\* AfterScylla without the `?` of a write: the volatile call follows a failure
AfterScyllaIgnoresError(c, o) ==
  IF c.op \in Writes
    THEN /\ rState' = "inflight"
         /\ result' = NoResult
         /\ pc' = "running"
    ELSE /\ rState' = Abandon(rState)
         /\ result' = (IF IsOk(o) THEN HOk(o.val) ELSE FromScyllaError(o))
         /\ pc' = "returned"

\* AfterScylla preferring a success: a failed structured get waits for the
\* volatile branch
AfterScyllaPrefersSuccess(c, o) ==
  IF (c.op \in Writes /\ IsOk(o)) \/ (c.op = "get" /\ IsErr(o))
    THEN /\ rState' = "inflight"
         /\ result' = NoResult
         /\ pc' = "running"
    ELSE /\ rState' = Abandon(rState)
         /\ result' = (IF IsOk(o) THEN HOk(o.val) ELSE FromScyllaError(o))
         /\ pc' = "returned"

\* what the Handler does when the structured-store future of call c is ready
\* with o: a write returns the error or goes on to the volatile store, get
\* and fetch return
AfterScylla(c, o) ==
  IF c.op \in Writes /\ IsOk(o)
    THEN /\ rState' = "inflight"
         /\ result' = NoResult
         /\ pc' = "running"
    ELSE /\ rState' = Abandon(rState)
         /\ result' = WrapScylla(o)
         /\ pc' = "returned"

\* session.execute / session.query of the structured-store call resolves
\* with r (outcome and store after it); rs is the result set of a fetch
ScyllaRespond(op, r, rs) ==
  /\ pc = "running"
  /\ sState = "inflight"
  /\ call.op = op
  /\ sOut' = r.out
  /\ scylla' = r.store
  /\ rows' = rs
  /\ AfterScylla(call, r.out)
  /\ sState' = "done"
  /\ UNCHANGED <<redis, connVars, call, sQuery, rOut, last>>

ScyllaCreateRespond == \E fault \in BOOLEAN :
  ScyllaRespond("create", ScyllaCreate(call.rec, sQuery, fault), <<>>)

ScyllaDeleteRespond == \E fault \in BOOLEAN :
  ScyllaRespond("delete", ScyllaDelete(call.rec, sQuery, fault), <<>>)

ScyllaUpdateRespond == \E fault \in BOOLEAN, embedded \in Keys :
  ScyllaRespond("update", ScyllaUpdate(call.rec, sQuery, fault, embedded), <<>>)

ScyllaGetRespond == \E fault \in BOOLEAN :
  ScyllaRespond("get", ScyllaGet(call.rec.id, sQuery, fault), <<>>)

\* the session answers a fetch with a failure, a non-row result or a result
\* set of RS
FetchRespond(RS) ==
  \/ ScyllaRespond("fetch", ScyllaFetch(call.amount, sQuery, TRUE, TRUE, <<>>), <<>>)
  \/ ScyllaRespond("fetch", ScyllaFetch(call.amount, sQuery, FALSE, FALSE, <<>>), <<>>)
  \/ \E rs \in RS :
       ScyllaRespond("fetch", ScyllaFetch(call.amount, sQuery, FALSE, TRUE, rs), rs)

ScyllaFetchRespond == FetchRespond(ShortResultSets)

\* AfterRedis with get joining its branches: the volatile outcome is held
\* until the structured branch completes too
AfterRedisAwaitsScylla(c, o) ==
  IF c.op = "get" /\ sState = "inflight"
    THEN /\ sState' = sState
         /\ result' = NoResult
         /\ pc' = "running"
    ELSE /\ sState' = Abandon(sState)
         /\ result' = WrapRedis(o)
         /\ pc' = "returned"

\* AfterRedis with a failed write run again from its structured-store call
AfterRedisRetries(c, o) ==
  IF c.op \in Writes /\ IsErr(o)
    THEN /\ sState' = "inflight"
         /\ result' = NoResult
         /\ pc' = "running"
    ELSE /\ sState' = Abandon(sState)
         /\ result' = WrapRedis(o)
         /\ pc' = "returned"

\* what the Handler does when the volatile-store future of call c is ready
\* with o: every operation returns
AfterRedis(c, o) ==
  /\ sState' = Abandon(sState)
  /\ result' = WrapRedis(o)
  /\ pc' = "returned"

\* the history of the last successful create or delete
Remember(c, res) ==
  IF res.tag = "ok" /\ c.op \in {"create", "delete"}
    THEN [kind |-> c.op, rec |-> c.rec, exp |-> c.exp, age |-> 0]
    ELSE last

\* the command of the volatile-store call resolves, failing if a fault of
\* Faults says so
RedisRespondWith(Faults) ==
  /\ pc = "running"
  /\ rState = "inflight"
  /\ \E fault \in Faults :
       LET r == CASE call.op = "create" -> RedisCreate(call.rec, call.exp, fault)
                  [] call.op = "delete" -> RedisDelete(call.rec, fault)
                  [] call.op = "update" -> RedisUpdate(call.rec, fault)
                  [] call.op = "get" -> RedisGet(call.rec.key, fault)
       IN /\ rOut' = r.out
          /\ redis' = r.store
          /\ AfterRedis(call, r.out)
          /\ last' = Remember(call, WrapRedis(r.out))
  /\ rState' = "done"
  /\ UNCHANGED <<scylla, connVars, call, sQuery, sOut, rows>>

RedisRespond == RedisRespondWith(BOOLEAN)

\* The caller takes the returned Result and drops it; the Handler can be
\* called again.
CallerReceives ==
  /\ pc = "returned"
  /\ pc' = "idle"
  /\ call' = NoCall
  /\ sState' = "unstarted"
  /\ sQuery' = NoQuery
  /\ sOut' = NoOutcome
  /\ rState' = "unstarted"
  /\ rOut' = NoOutcome
  /\ rows' = <<>>
  /\ result' = NoResult
  /\ UNCHANGED <<storeVars, connVars, last>>

\* ------------------------------------------------------------- environment
\* One second passes on the volatile store: every entry's time-to-live
\* decreases and an entry whose time-to-live ends is removed.
Expire(e) == IF e.ttl <= 1 THEN NoEntry ELSE [e EXCEPT !.ttl = e.ttl - 1]
MaxTtl == IF DefaultExpiration > MaxExpiration THEN DefaultExpiration ELSE MaxExpiration

Tick ==
  /\ \E k \in Keys : redis[k] # NoEntry
  /\ redis' = [k \in Keys |-> Expire(redis[k])]
  /\ last' = IF last.kind = "none" THEN last
             ELSE [last EXCEPT !.age = Min(last.age + 1, MaxTtl)]
  /\ UNCHANGED <<pc, connVars, scylla, callVars>>

Next ==
  \/ HandlerCreateConnections
  \/ RedisCreateConnections
  \/ ScyllaBuildSession
  \/ QueriesCreateKeyspace
  \/ QueriesCreateTables
  \/ QueriesPrepareQueries
  \/ HandlerCreate
  \/ HandlerDelete
  \/ HandlerUdpate
  \/ HandlerGet
  \/ HandlerFetch
  \/ ScyllaCreateRespond
  \/ ScyllaDeleteRespond
  \/ ScyllaUpdateRespond
  \/ ScyllaGetRespond
  \/ ScyllaFetchRespond
  \/ RedisRespond
  \/ CallerReceives
  \/ Tick

Spec == Init /\ [][Next]_vars

\* The first of the two raced futures of a pending Handler::get becomes
\* ready. select! polls both futures whenever the task is woken, so the task
\* proceeds once either store answers; that one of them answers is the
\* caller's premise. Nothing is assumed once one branch has completed.
FirstBranchCompletes ==
  /\ call.op = "get"
  /\ sState = "inflight"
  /\ rState = "inflight"
  /\ (ScyllaGetRespond \/ RedisRespond)

\* Handler::get over stores filled by Handler::create
NextGet ==
  \/ HandlerCreateConnections
  \/ RedisCreateConnections
  \/ ScyllaBuildSession
  \/ QueriesCreateKeyspace
  \/ QueriesCreateTables
  \/ QueriesPrepareQueries
  \/ HandlerCreate
  \/ HandlerGet
  \/ ScyllaCreateRespond
  \/ ScyllaGetRespond
  \/ RedisRespond
  \/ CallerReceives
  \/ Tick

SpecGetCompletes == Init /\ [][NextGet]_vars /\ WF_vars(FirstBranchCompletes)

\* Creates and deletes of a record type whose volatile key is its structured
\* id, on a volatile store whose commands do not fail
KeyedRecords == {r \in Records : r.key = r.id}

HandlerCreateKeyed == \E data \in KeyedRecords, expiration \in Expirations :
  BeginWrite("create", data, expiration)

HandlerDeleteKeyed == \E data \in KeyedRecords : BeginWrite("delete", data, 0)

RedisRespondNoFault == RedisRespondWith({FALSE})

NextKeyed ==
  \/ HandlerCreateConnections
  \/ RedisCreateConnections
  \/ ScyllaBuildSession
  \/ QueriesCreateKeyspace
  \/ QueriesCreateTables
  \/ QueriesPrepareQueries
  \/ HandlerCreateKeyed
  \/ HandlerDeleteKeyed
  \/ ScyllaCreateRespond
  \/ ScyllaDeleteRespond
  \/ RedisRespondNoFault
  \/ CallerReceives
  \/ Tick

SpecKeyed == Init /\ [][NextKeyed]_vars

\* The fetch path on its own, with result sets longer than the built-in limit
ScyllaFetchRespondLong == FetchRespond(ResultSets)

NextFetch ==
  \/ HandlerCreateConnections
  \/ RedisCreateConnections
  \/ ScyllaBuildSession
  \/ QueriesCreateKeyspace
  \/ QueriesCreateTables
  \/ QueriesPrepareQueries
  \/ HandlerFetch
  \/ ScyllaFetchRespondLong
  \/ CallerReceives

SpecFetch == Init /\ [][NextFetch]_vars

\* ------------------------------------------------------------------ claims
Returned(op) == pc = "returned" /\ call.op = op
ReturnedWrite == pc = "returned" /\ call.op \in Writes
SomeEntry == \E k \in Keys : redis[k] # NoEntry
RowErr == Err("RowError", "")

\* C1: in a Handler write the volatile-store call is issued only once the
\* structured-store call has completed with success; when the structured
\* write fails the Handler returns that error wrapped as ScyllaError, no
\* volatile-store call is made and the volatile store is not changed.
C1_StructuredBeforeVolatile ==
  /\ [](call.op \in Writes =>
          /\ rState # "unstarted" => sState = "done" /\ IsOk(sOut)
          /\ sState = "done" /\ IsErr(sOut) =>
               /\ rState = "unstarted"
               /\ pc = "returned"
               /\ result = FromScyllaError(sOut))
  /\ [][call'.op \in Writes /\ ~IsOk(sOut') => redis' = redis \/ Tick]_vars

C1_Witness ==
  /\ Returned("create")
  /\ sOut = Err("CreateError", Io)
  /\ rState = "unstarted"
  /\ SomeEntry

\* C2: a Handler write whose structured-store call succeeded and whose
\* volatile-store call failed returns that failure as RedisError; the failing
\* step changes neither store and ends the call, so the structured effect
\* stays (after create(R) the row of R's id is R) and the volatile store is
\* as it was.
C2_PartialWriteKept ==
  /\ [](ReturnedWrite /\ IsOk(sOut) /\ IsErr(rOut) =>
          /\ result.tag = "err"
          /\ result.origin = "RedisError"
          /\ result.kind = rOut.kind /\ result.detail = rOut.detail
          /\ call.op = "create" =>
               /\ scylla[call.rec.id] = <<call.rec.id, call.rec.key>>
               /\ ScyllaGet(call.rec.id, sQuery, FALSE).out = Ok(<<call.rec>>)
          /\ call.op = "delete" => scylla[call.rec.id] = NoRow)
  /\ [][rState = "inflight" /\ call.op \in Writes /\ IsErr(rOut') =>
          redis' = redis /\ scylla' = scylla /\ pc' = "returned"]_vars

C2_Witness ==
  /\ Returned("create")
  /\ IsOk(sOut)
  /\ rOut = Err("CreateError", Io)
  /\ call.exp = 1
  /\ redis[call.rec.key].val # Nil
  /\ redis[call.rec.key].ttl = DefaultExpiration

\* C3: while Handler.get is pending both store calls are outstanding; when
\* it has returned exactly one branch has completed and the result is that
\* branch's outcome, success or failure, wrapped in its origin; the other
\* branch never completes.
C3_GetRace ==
  /\ call.op = "get" /\ pc = "running" => sState = "inflight" /\ rState = "inflight"
  /\ Returned("get") =>
       \/ sState = "done" /\ rState # "done" /\ rOut = NoOutcome
            /\ result = (IF sOut.tag = "ok" THEN HOk(sOut.val) ELSE FromScyllaError(sOut))
       \/ rState = "done" /\ sState # "done" /\ sOut = NoOutcome
            /\ result = (IF rOut.tag = "ok" THEN HOk(rOut.val) ELSE FromRedisError(rOut))

\* the structured branch failed first although the volatile one would succeed
C3_Witness ==
  /\ Returned("get")
  /\ sState = "done"
  /\ result = FromScyllaError(RowErr)
  /\ rState = "abandoned"
  /\ IsOk(RedisGet(call.rec.key, FALSE).out)

\* the Handler.get was answered by a store: its winning branch was neither
\* refused by the resolver nor failed by the driver
Served == result.kind # "InvalidQuery" /\ result.detail # Io

\* C4: after Handler.create(R, E) with E > 0 returned success, with no write
\* since, a Handler.get on R's id and key that completes before E seconds
\* have passed and is answered by a store returns R, whichever branch wins.
C4_CreateThenGet ==
  Returned("get") /\ last.kind = "create" /\ last.exp > 0
    /\ call.rec = last.rec /\ last.age < last.exp /\ Served
  => result = HOk(<<last.rec>>)

C4_Witness ==
  /\ Returned("get")
  /\ last.kind = "create" /\ last.exp = 1 /\ last.age = 0
  /\ call.rec = last.rec
  /\ last.rec.key = 2
  /\ rState = "done"
  /\ result = HOk(<<last.rec>>)

\* C5: after Handler.delete(R) returned success, with no write since, a
\* structured-store get on R's id that is executed fails with RowError and a
\* volatile-store get on R's key that is executed fails with GetError; a
\* Handler.get on R's id and key fails whichever branch wins.
C5_DeleteThenGet ==
  last.kind = "delete" =>
    /\ ScyllaGet(last.rec.id, sQuery, FALSE).out = RowErr
    /\ RedisGet(last.rec.key, FALSE).out.tag = "err"
    /\ RedisGet(last.rec.key, FALSE).out.kind = "GetError"
    /\ Returned("get") /\ call.rec = last.rec =>
         /\ result.tag = "err"
         /\ sState = "done" /\ Served => result = FromScyllaError(RowErr)
         /\ rState = "done" => result.origin = "RedisError" /\ result.kind = "GetError"

C5_Witness ==
  /\ Returned("get")
  /\ last.kind = "delete"
  /\ call.rec = last.rec
  /\ rState = "done"
  /\ result = FromRedisError(Err("GetError", "nil"))
  /\ SomeEntry

RedisSteps == {"redis_open", "redis_connect"}
ScyllaSteps == {"scylla_session", "scylla_keyspace", "scylla_tables", "scylla_prepare"}
ScyllaPcs == ScyllaSteps
Attempted(S) == \E i \in 1..Len(steps) : steps[i] \in S

\* C6 as stated: a volatile-store construction step is taken only after the
\* structured-store construction has gone through all its steps.
C6_StructuredFirst ==
  \A i \in 1..Len(steps) :
    steps[i] \in RedisSteps => \E j \in 1..(i - 1) : steps[j] = "scylla_prepare"

\* C6 amended: Handler.create_connections constructs the volatile-store
\* client first and the structured-store client second: a structured-store
\* step is under way or taken only after both volatile-store steps succeeded,
\* and a volatile-store failure is returned with no structured-store step.
C6_VolatileFirst ==
  /\ pc \in ScyllaPcs \/ Attempted(ScyllaSteps) =>
       /\ Len(steps) >= 2
       /\ steps[1] = "redis_open" /\ steps[2] = "redis_connect"
       /\ \A i \in 3..Len(steps) : steps[i] \in ScyllaSteps
  /\ connected.origin = "RedisError" => pc = "start" /\ ~Attempted(ScyllaSteps)
  /\ connected.origin = "ScyllaError" => pc = "start" /\ Attempted(ScyllaSteps)
  /\ pc \in {"idle", "running", "returned"} =>
       steps = <<"redis_open", "redis_connect", "scylla_session",
                 "scylla_keyspace", "scylla_tables", "scylla_prepare">>

C6_Witness ==
  /\ pc = "start"
  /\ connected = FromScyllaError(Err("CreateSessionError", Io))
  /\ steps = <<"redis_open", "redis_connect", "scylla_session">>

\* C7: the step in which a volatile-store create(R, E) succeeds leaves under
\* R's key the value of R with a time-to-live of the default when E = 0 and
\* of E otherwise; it is at least one second and finite.
C7_DefaultTtl ==
  [][rState = "inflight" /\ call.op = "create" /\ IsOk(rOut') =>
       /\ redis'[call.rec.key].val = <<call.rec.key, call.rec.id>>
       /\ redis'[call.rec.key].ttl = (IF call.exp = 0 THEN DefaultExpiration ELSE call.exp)
       /\ redis'[call.rec.key].ttl \in 1..MaxTtl
       /\ \A k \in Keys \ {call.rec.key} : redis'[k] = redis[k]]_vars

C7_Witness ==
  /\ Returned("create")
  /\ call.exp = 0
  /\ IsOk(rOut)
  /\ redis[call.rec.key].ttl = DefaultExpiration
  /\ \E k \in Keys : redis[k] # NoEntry /\ redis[k].ttl # DefaultExpiration

\* the row limit of the fetch that returned
FetchLimit == IF call.amount = 0 THEN 10 ELSE call.amount
Shorter(a, b) == IF a < b THEN a ELSE b
Malformed(i) == ~(Len(rows[i]) = 2 /\ rows[i][1] \in Ids /\ rows[i][2] \in Keys)
Decoded(n) ==
  [i \in 1..n |-> IF Malformed(i) THEN [id |-> 0, key |-> 0]
                  ELSE [id |-> rows[i][1], key |-> rows[i][2]]]

\* C8 as stated: a malformed row anywhere in the result set fails the fetch
\* with RowError.
C8_AnyMalformedRowFails ==
  Returned("fetch") /\ (\E i \in 1..Len(rows) : Malformed(i))
    => result = FromScyllaError(RowErr)

\* C8 amended: a malformed row among the first L rows of the result set
\* (L = 10 for amount 0, the amount otherwise) fails the whole fetch with
\* RowError and no records, whatever its position among them; the rows after
\* the first L are not decoded, so a malformed row there does not fail it.
C8_MalformedRowWithinLimitFails ==
  Returned("fetch") /\ rows # <<>> =>
    IF \E i \in 1..Shorter(FetchLimit, Len(rows)) : Malformed(i)
      THEN result = FromScyllaError(RowErr) /\ result.val = <<>>
      ELSE result.tag = "ok"

C8_Witness ==
  /\ Returned("fetch")
  /\ call.amount = 2
  /\ Len(rows) = 3
  /\ Malformed(2)
  /\ result = FromScyllaError(RowErr)

\* C9: a successful fetch returns at most L records (L = 10 for amount 0,
\* the amount otherwise), namely the first min(L, n) rows of the result set
\* decoded in order; it succeeds whenever all rows of the result set decode.
C9_FetchLimit ==
  Returned("fetch") =>
    /\ result.tag = "ok" =>
         /\ Len(result.val) <= FetchLimit
         /\ result.val = Decoded(Shorter(FetchLimit, Len(rows)))
    /\ rows # <<>> /\ (\A i \in 1..Len(rows) : ~Malformed(i)) => result.tag = "ok"

C9_Witness ==
  /\ Returned("fetch")
  /\ call.amount = 0
  /\ Len(rows) = 11
  /\ result.tag = "ok"
  /\ Len(result.val) = 10

\* C10: when the resolver fails to resolve the query of a structured-store
\* operation, whatever its error, the operation returns InvalidQuery at once,
\* which the Handler returns as ScyllaError(InvalidQuery): no statement is
\* sent, neither store changes and a write makes no volatile-store call.
C10_InvalidQuery ==
  /\ [](sQuery.tag = "err" =>
          /\ sState = "done"
          /\ sOut.tag = "err" /\ sOut.kind = "InvalidQuery" /\ sOut.detail = ""
          /\ pc = "returned"
          /\ result.tag = "err" /\ result.origin = "ScyllaError"
          /\ result.kind = "InvalidQuery"
          /\ call.op # "get" => rState = "unstarted"
          /\ rState # "done" /\ rOut = NoOutcome)
  /\ [][sQuery'.tag = "err" =>
          /\ scylla' = scylla
          /\ redis' = redis \/ Tick
          /\ sState # "inflight"]_vars

C10_Witness ==
  /\ Returned("update")
  /\ sQuery = [tag |-> "err", err |-> "QueryPreparationError"]
  /\ result.kind = "InvalidQuery"
  /\ \E i \in Ids : scylla[i] # NoRow
  /\ SomeEntry

\* the construction step that ended the last create_connections
LastStep == IF steps = <<>> THEN "" ELSE steps[Len(steps)]
ResolverSteps == {"scylla_keyspace", "scylla_tables", "scylla_prepare"}
Failed == pc = "start" /\ connected.tag = "err"

\* C11 as stated: whichever structured-store construction step fails, and
\* whatever the resolver reported, create_connections fails with
\* CreateSessionError.
C11_AlwaysCreateSessionError ==
  Failed /\ LastStep \in ScyllaSteps => connected.kind = "CreateSessionError"

\* C11 amended: a failed session build fails create_connections with
\* CreateSessionError; a failed keyspace, table or precompilation step fails
\* it with exactly the error that step of the resolver reported, which is
\* CreateSessionError only when the resolver reported that.
C11_SessionOrResolverError ==
  /\ Failed /\ LastStep = "scylla_session" =>
       connected.origin = "ScyllaError" /\ connected.kind = "CreateSessionError"
         /\ connected.detail = reported.detail
  /\ Failed /\ LastStep \in ResolverSteps =>
       /\ reported.tag = "err"
       /\ connected.origin = "ScyllaError"
       /\ connected.kind = reported.kind
       /\ connected.detail = reported.detail

C11_Witness ==
  /\ Failed
  /\ LastStep = "scylla_prepare"
  /\ reported = Err("QueryPreparationError", Io)
  /\ connected.kind = "QueryPreparationError"

\* the volatile-store command of an update resolves in this step
RedisUpdateStep == call.op = "update" /\ rState = "inflight" /\ rState' = "done"
UpdatedEntry == [val |-> <<call.rec.key, call.rec.id>>, ttl |-> DefaultExpiration]

\* C12: volatile-store update(R) acts and answers as create(R, 0) does. A
\* successful update leaves R's serialized form under R's key with the default
\* time-to-live and every other key as it was, whatever was stored before, so
\* that an update repeated on its own result changes nothing; a failed update
\* reports create's error and changes nothing.
C12_UpdateIsCreateDefault ==
  [][RedisUpdateStep =>
       /\ IsOk(rOut') =>
            /\ rOut' = Ok(<<>>)
            /\ redis' = [redis EXCEPT ![call.rec.key] = UpdatedEntry]
            /\ (redis[call.rec.key] = UpdatedEntry => redis' = redis)
       /\ IsErr(rOut') => rOut'.kind = "CreateError" /\ redis' = redis]_vars

C12_Witness ==
  /\ Returned("update")
  /\ IsOk(rOut)
  /\ redis[call.rec.key] = UpdatedEntry
  /\ \E k \in Keys : k # call.rec.key /\ redis[k] # NoEntry

\* the statement of the structured-store call was sent and its execution failed
ExecFailed(op) ==
  call.op = op /\ sState = "done" /\ IsErr(sOut) /\ sQuery.tag \in {"Prepared", "Raw"}

\* C13: a failed execution of structured-store update is reported as
\* DeleteError with the driver's error, on the precompiled and on the raw path
\* alike and as delete reports it; create, delete, update, get and fetch never
\* return UpdateError.
C13_UpdateReportsDeleteError ==
  /\ ExecFailed("update") => sOut = Err("DeleteError", Io)
  /\ ExecFailed("delete") => sOut = Err("DeleteError", Io)
  /\ sOut.kind # "UpdateError"
  /\ result.kind # "UpdateError"

C13_Witness ==
  /\ Returned("update")
  /\ ExecFailed("update")
  /\ sQuery.tag = "Raw"
  /\ result = FromScyllaError(Err("DeleteError", Io))

\* the statement of a structured-store create resolves in this step
ScyllaCreateStep == call.op = "create" /\ sState = "inflight" /\ sState' = "done"

\* C14: a failed execution of structured-store create is CreateError exactly
\* on the precompiled path and QueryError exactly on the raw path, and on
\* either path a create that succeeds has stored the whole record, id and key,
\* under its id.
C14_CreateErrorByPath ==
  /\ [](ExecFailed("create") =>
          /\ sQuery.tag = "Prepared" => sOut = Err("CreateError", Io)
          /\ sQuery.tag = "Raw" => sOut = Err("QueryError", Io)
          /\ sOut.kind = "CreateError" <=> sQuery.tag = "Prepared"
          /\ sOut.kind = "QueryError" <=> sQuery.tag = "Raw")
  /\ [][ScyllaCreateStep /\ IsOk(sOut') =>
          scylla' = [scylla EXCEPT ![call.rec.id] = <<call.rec.id, call.rec.key>>]]_vars

C14_Witness ==
  /\ Returned("create")
  /\ ExecFailed("create")
  /\ sQuery.tag = "Raw"
  /\ result = FromScyllaError(Err("QueryError", Io))

\* a store call of the current Handler call is issued only if it was not
\* issued before
IssuedOnce(st, stNext) ==
  /\ stNext = "inflight" => st \in {"unstarted", "inflight"}
  /\ stNext = "unstarted" => st = "unstarted" \/ pc' = "idle"
ScyllaFailed == sState = "done" /\ IsErr(sOut)
RedisFailed == rState = "done" /\ IsErr(rOut)

\* C15: within one Handler call each store operation is issued at most once,
\* a failed one included, and the call returns with the failure. A returned
\* error is ScyllaError(e) exactly when the structured-store call failed, e
\* being its error, and RedisError(e) exactly when the volatile-store call
\* failed, e being its error; when neither failed the call returned a value.
C15_OnceAndWrapped ==
  /\ [][IssuedOnce(sState, sState') /\ IssuedOnce(rState, rState')]_vars
  /\ [](ScyllaFailed \/ RedisFailed => pc = "returned")
  /\ [](pc = "returned" =>
          /\ result.tag = "err" <=> ScyllaFailed \/ RedisFailed
          /\ result.tag = "err" => result.origin \in {"ScyllaError", "RedisError"}
          /\ result.origin = "ScyllaError" <=> ScyllaFailed
          /\ result.origin = "RedisError" <=> RedisFailed
          /\ ScyllaFailed => result.kind = sOut.kind /\ result.detail = sOut.detail
          /\ RedisFailed => result.kind = rOut.kind /\ result.detail = rOut.detail)

C15_Witness ==
  /\ Returned("delete")
  /\ sState = "done" /\ IsOk(sOut)
  /\ RedisFailed
  /\ result = FromRedisError(Err("DeleteError", Io))

PendingGet == call.op = "get" /\ pc = "running"

\* C16: a pending Handler.get of which at least one branch completes
\* eventually returns; it returns in the very step in which the first branch
\* completes, with that branch's outcome, and from then on until the caller
\* takes the result neither the result nor either branch's outcome changes:
\* the other branch is not awaited.
C16_GetReturnsOnFirstCompletion ==
  /\ PendingGet ~> Returned("get")
  /\ [][PendingGet /\ (sState' = "done" \/ rState' = "done") =>
          /\ pc' = "returned"
          /\ sState' = "done" => result' = WrapScylla(sOut') /\ rState' = "abandoned"
          /\ rState' = "done" => result' = WrapRedis(rOut') /\ sState' = "abandoned"]_vars
  /\ [][Returned("get") /\ pc' # "idle" =>
          result' = result /\ sOut' = sOut /\ rOut' = rOut
            /\ sState' = sState /\ rState' = rState]_vars

\* the volatile branch failed first and the structured one never completed
C16_Witness ==
  /\ Returned("get")
  /\ rState = "done"
  /\ IsErr(rOut)
  /\ sState = "abandoned"
  /\ sOut = NoOutcome
  /\ result = FromRedisError(rOut)

\* C17: Handler.fetch never issues a volatile-store call and no step of it
\* changes the volatile store (entries only age); what it returns is the
\* outcome of the one structured-store fetch for the amount it was called
\* with, the rows as they are or the error as ScyllaError.
C17_FetchStructuredOnly ==
  /\ [](call.op = "fetch" => rState = "unstarted" /\ rOut = NoOutcome)
  /\ [](Returned("fetch") =>
          /\ sState = "done"
          /\ IsOk(sOut) => result = HOk(sOut.val)
          /\ IsErr(sOut) => result = FromScyllaError(sOut)
          /\ sQuery.tag # "err" =>
               \E fault, isRows \in BOOLEAN :
                 sOut = ScyllaFetch(call.amount, sQuery, fault, isRows, rows).out)
  /\ [][call'.op = "fetch" =>
          redis' = redis \/ redis' = [k \in Keys |-> Expire(redis[k])]]_vars
  /\ [][call.op = "fetch" => scylla' = scylla]_vars

C17_Witness ==
  /\ Returned("fetch")
  /\ call.amount = 1
  /\ Len(result.val) = 1
  /\ SomeEntry

ScyllaOrder == <<"scylla_session", "scylla_keyspace", "scylla_tables", "scylla_prepare">>
IsScyllaStep(x) == x \in ScyllaSteps
\* the structured-store construction steps taken by the last create_connections
ScyllaTaken == SelectSeq(steps, IsScyllaStep)
\* a structured-store client has been returned
ClientExists == pc \in {"idle", "running", "returned"}

\* C18: the structured-store construction steps taken are always an initial
\* part of session build, keyspace creation, table creation, statement
\* precompilation; a step is about to run only when exactly the steps before
\* it were taken and the last of them succeeded; a client exists, and an
\* operation is called, only after all four were taken; and once a client
\* exists every step leaves it existing with its construction as it was.
C18_ConstructionOrder ==
  /\ [](ScyllaTaken = SubSeq(ScyllaOrder, 1, Len(ScyllaTaken)))
  /\ [](\A i \in 1..4 : pc = ScyllaOrder[i] =>
          /\ ScyllaTaken = SubSeq(ScyllaOrder, 1, i - 1)
          /\ IsOk(reported))
  /\ [](ClientExists => ScyllaTaken = ScyllaOrder /\ IsOk(reported)
                          /\ connected = HOk(<<>>))
  /\ [](call # NoCall => ClientExists)
  /\ [][ClientExists =>
          ClientExists' /\ steps' = steps /\ connected' = connected]_vars

C18_Witness ==
  /\ Returned("fetch")
  /\ IsErr(sOut)
  /\ ScyllaTaken = ScyllaOrder

\* the volatile store after one second
Aged == [k \in Keys |-> Expire(redis[k])]

\* C19: no step of a Handler.get, from the call to the return, changes the
\* structured store, and none changes the volatile store, whose entries only
\* age meanwhile; this holds for a get won by either branch, with success or
\* failure, and while the other branch stays abandoned.
C19_GetChangesNothing ==
  [][call'.op = "get" \/ call.op = "get" =>
       /\ scylla' = scylla
       /\ redis' = redis \/ (redis' = Aged /\ UNCHANGED <<pc, callVars>>)]_vars

\* the volatile branch won with the record it holds, the structured branch
\* was left in flight
C19_Witness ==
  /\ Returned("get")
  /\ rState = "done"
  /\ IsOk(rOut)
  /\ sState = "abandoned"
  /\ redis[call.rec.key] # NoEntry
  /\ scylla[call.rec.id] # NoRow

\* no Handler call is under way
Quiescent == pc # "running"

\* C20: for records whose volatile key is their structured id and a volatile
\* store that does not fail, between Handler.create and Handler.delete calls
\* (structured-store calls failing at will, entries expiring) every entry of
\* the volatile store decodes to a record that the structured store holds,
\* field for field, under that record's id.
C20_CacheWithinDurable ==
  Quiescent =>
    \A k \in Keys : redis[k] # NoEntry =>
      /\ ValueDecodes(redis[k].val)
      /\ LET r == FromRedisValue(redis[k].val)
         IN /\ r.key = k
            /\ scylla[r.id] # NoRow
            /\ RowDecodes(scylla[r.id])
            /\ FromRow(scylla[r.id]) = r

\* a delete refused by the structured store left the record in both stores
C20_Witness ==
  /\ Returned("delete")
  /\ ScyllaFailed
  /\ redis[call.rec.key] # NoEntry
  /\ scylla[call.rec.id] = SerializeRow(call.rec)
====
